---- MODULE Spec2Model ----
(***************************************************************************)
(* State-machine model of the depth streamer backend                       *)
(* (src/depth_streamer/backend/app): the WebSocket signaling router        *)
(* (webrtc/signaling_ws.py), the peer-session manager                      *)
(* (webrtc/peer_manager.py) and the control-command path                   *)
(* (control/handlers.py, control/messages.py).                             *)
(*                                                                         *)
(* Coroutines are cut at their suspension points (await of a transport     *)
(* operation, asyncio.gather): one action per run-to-suspension segment.   *)
(* A handler whose reads and writes of shared state all precede its first  *)
(* suspension is one action.                                               *)
(***************************************************************************)
EXTENDS Integers, Sequences, FiniteSets, TLC

\* ---------------------------------------------------------------- bounds
NumClients == 2
MaxPcs == 2
MaxCtl == 3
MaxCallers == 2
MaxTime == 8
MaxLatency == 2
MaxCands == 2
NumSockets == 3

Clients == 1..NumClients
RoomIds == {"default", "lab"}
None == "None"
NoClient == 0

\* A dict from room id to member set, as a total function: a room id that is
\* no key of the dict is not present (and then has no members).
NoRoom == [present |-> FALSE, members |-> {}]
NoRooms == [r \in RoomIds |-> NoRoom]
RoomKeys(rms) == {r \in RoomIds : rms[r].present}

VARIABLES
  \* SignalingServer
  clients,      \* keys of self.clients: the registered connection ids
  conn,         \* per connection id: position of its handle_connection coroutine
  rooms,        \* self.rooms: room id -> set of client ids (a dict: partial)
  callbacks,    \* on_offer / on_answer / on_ice_candidate: registered or None
  \* What the step just taken did, when it handled a frame (else empty):
  lastFrom,     \* the frame's sender
  lastFrame,    \* the frame
  preRooms,     \* self.rooms as the frame found it
  handed,       \* the registered callback the frame was passed to, or None
  lastBcast,    \* the broadcast_to_room call made for the frame, if any
  lastSends,    \* the websocket send() calls issued for the frame, in order
  returned,     \* what that callback returned
  \* Reference for the membership claims:
  replay,       \* per connection: its join/leave frames replayed on a set
  gathered,     \* how the last broadcast's gather ended, "none" without one
  \* DepthStreamerApp, camera, video track
  appPc,        \* where the application is between construction and stop()
  camOpen,      \* ArducamDepthCamera._is_open
  trackRunning, \* DepthVideoStreamTrack._running
  \* PeerManager
  peers,        \* self.peers: client id -> its RTCPeerConnection, or NoPc
  pcs,          \* every RTCPeerConnection created so far
  ho,           \* per client: where its handle_offer call is suspended
  rm,           \* per peer connection: its 'failed' handler (remove_peer)
  stopTasks,    \* stop(): the close() coroutines gather has not yet run
  stopSeen,     \* connections that were registered at some time during stop()
  closeFaults,  \* whether RTCPeerConnection.close() may raise in this run
  \* Control path ("controls" data channels)
  ctlRecv,      \* per client: the messages its channel has delivered, in order
  ctlTasks,     \* the process_control_message tasks not yet run, oldest first
  dispatched,   \* the handle_command calls made so far, in order
  chanOut,      \* per client: what has been written to its channel, in order
  \* DepthVideoStreamTrack and DepthFrameProcessor
  now,          \* time.time()
  fpsLimit,     \* self.fps_limit (frame_interval is 1.0 / fps_limit)
  lastFrameTime,\* self.last_frame_time
  currentFrame, \* self._current_frame: the cached image, or NoImage
  tk,           \* per caller of recv: where its call is suspended
  lastTick,     \* what the recv segment just run did (else empty)
  confidence,   \* DepthFrameProcessor.confidence_threshold
  colormap,     \* DepthFrameProcessor.colormap (by its name in COLORMAPS)
  depthRange,   \* the sensor's RANGE control
  iceApplied,   \* per connection: the remote candidates its transport holds
  iceLog        \* every candidate frame handled, as handle_ice_candidate saw it

sigVars == <<clients, conn, rooms, callbacks, lastFrom, lastFrame, preRooms,
             handed, lastBcast, lastSends, returned, replay, gathered>>

appVars == <<appPc, camOpen, trackRunning>>

peerVars == <<peers, pcs, ho, rm, stopTasks, stopSeen, closeFaults>>

ctlVars == <<ctlRecv, ctlTasks, dispatched, chanOut>>

trackVars == <<now, fpsLimit, lastFrameTime, currentFrame, tk, lastTick,
               confidence>>

paramVars == <<colormap, depthRange>>
iceVars == <<iceApplied, iceLog>>

vars == <<sigVars, appVars, peerVars, ctlVars, trackVars, paramVars, iceVars>>

\* Everything the peer manager's and the application's steps leave alone.
beyondPeers == <<ctlVars, trackVars, paramVars, iceVars>>

\* ------------------------------------------------------------ helpers
Min(S) == CHOOSE x \in S : \A y \in S : x <= y

RECURSIVE SeqOf(_)
\* The members of a set of client ids as a sequence (the order a loop over
\* the set visits them; fixed here to ascending ids).
SeqOf(S) == IF S = {} THEN <<>> ELSE <<Min(S)>> \o SeqOf(S \ {Min(S)})

\* --------------------------------------------------- signaling frames
NegTypes == {"offer", "answer", "ice_candidate"}

\* An id that no connection has: a target may name any string.
Stranger == NumClients + 1

\* What a client can put on its websocket: a JSON object with a type and
\* optional room / target fields, or a frame that is not JSON at all.
Frames ==
  [json : {TRUE}, type : {"join", "leave"}, room : RoomIds \cup {None},
   target : {NoClient}]
  \cup [json : {TRUE}, type : NegTypes, room : {None, "lab"},
        target : Clients \cup {NoClient, Stranger}]
  \cup [json : {TRUE}, type : {"bogus"}, room : {None}, target : {NoClient}]
  \cup [json : {FALSE}, type : {None}, room : {None}, target : {NoClient}]

NoFrame == [json |-> FALSE, type |-> "none", room |-> None, target |-> NoClient]

\* What a callback returns to handle_message: nothing, or handle_offer's
\* {"type": "answer", "sdp": ..., "target": sender_id}.
NoAnswer == [type |-> None, target |-> NoClient]

\* message.get('room', 'default')
RoomOf(m) == IF m.room = None THEN "default" ELSE m.room

\* A client is a member of every room whose set holds it.
RoomsOf(rms, c) == {r \in RoomKeys(rms) : c \in rms[r].members}
Members(rms, r) == IF r \in RoomKeys(rms) THEN rms[r].members ELSE {}

\* websocket.send(): raises once the socket is closed, which is the case from
\* the peer's close until the connection's finally block has run.
SendOk(c) == conn[c] = "open"

\* ------------------------------------------------- broadcast_to_room
BroadcastTargetsNoExclude(rms, cl, room, exclude) ==
  IF room \notin RoomKeys(rms) THEN {}
  ELSE {c \in rms[room].members : c \in cl}

BroadcastTargets(rms, cl, room, exclude) ==
  IF room \notin RoomKeys(rms) THEN {}
  ELSE {c \in rms[room].members : c # exclude /\ c \in cl}

\* The send() calls of one broadcast: one per target, gathered with
\* return_exceptions=True (a failed send is swallowed).
BroadcastSends(rms, cl, room, msg, exclude) ==
  LET ts == SeqOf(BroadcastTargets(rms, cl, room, exclude))
  IN  [i \in 1..Len(ts) |-> [to |-> ts[i], msg |-> msg, ok |-> SendOk(ts[i])]]

GatherPropagates(sends) ==
  IF \E i \in 1..Len(sends) : ~sends[i].ok THEN "raised" ELSE "returned"

\* asyncio.gather(*tasks, return_exceptions=True): every send runs, and
\* what a send raises is returned in the result list.
Gather(sends) == "returned"

\* A call of broadcast_to_room, with the room's members as the call finds them.
NoBcast == [called |-> FALSE, room |-> None, exclude |-> NoClient, members |-> {}]
BcastRecord(rms, room, exclude) ==
  [called |-> TRUE, room |-> room, exclude |-> exclude,
   members |-> Members(rms, room)]

NoticeNoPeer(kind, peer) ==
  [type |-> kind, peer_id |-> NoClient, sender |-> NoClient]

\* {'type': kind, 'peer_id': peer} and {**message, 'sender': sender}
Notice(kind, peer) == [type |-> kind, peer_id |-> peer, sender |-> NoClient]
Relayed(m, sender) == [type |-> m.type, peer_id |-> NoClient, sender |-> sender]

\* ------------------------------------------------------------ join_room
\* self.rooms after join_room's membership update: the room is created if
\* it is no key yet, and the client added to it.
JoinRoomRooms(rms, c, r) ==
  [rms EXCEPT ![r] = [present |-> TRUE, members |-> @.members \cup {c}]]

\* ----------------------------------------------------------- leave_room
LeaveRoomKeepsMember(rms, c, r) == rms

\* self.rooms after leave_room's membership update: discard, then delete
\* the room if that emptied it.
LeaveRoomRooms(rms, c, r) ==
  IF r \notin RoomKeys(rms) THEN rms
  ELSE IF rms[r].members \ {c} = {} THEN [rms EXCEPT ![r] = NoRoom]
  ELSE [rms EXCEPT ![r].members = @ \ {c}]

\* ------------------------------------------------------- SignalingServer
SigInit ==
  /\ clients = {}
  /\ conn = [c \in Clients |-> "closed"]
  /\ rooms = NoRooms
  /\ callbacks = [k \in NegTypes |-> FALSE]
  /\ lastFrom = NoClient
  /\ lastFrame = NoFrame
  /\ preRooms = NoRooms
  /\ handed = None
  /\ lastBcast = NoBcast
  /\ lastSends = <<>>
  /\ returned = NoAnswer
  /\ replay = [c \in Clients |-> {}]
  /\ gathered = "none"

\* The record of a step that handled frame f of connection c.
HandledBy(c, f, cb, ret, bcast, sends) ==
  /\ lastFrom' = c
  /\ lastFrame' = f
  /\ preRooms' = rooms
  /\ handed' = cb
  /\ returned' = ret
  /\ lastBcast' = bcast
  /\ lastSends' = sends
  /\ gathered' = IF bcast.called THEN Gather(sends) ELSE "none"

Handled(c, f, cb, bcast, sends) == HandledBy(c, f, cb, NoAnswer, bcast, sends)

\* The record of a step that handled no frame.
NoFrameHandled ==
  /\ lastFrom' = NoClient
  /\ lastFrame' = NoFrame
  /\ preRooms' = NoRooms
  /\ handed' = None
  /\ returned' = NoAnswer
  /\ lastBcast' = NoBcast
  /\ lastSends' = <<>>
  /\ gathered' = "none"

\* The owner of the router assigns one of its callback attributes.
RegisterCallback(k) ==
  /\ ~callbacks[k]
  /\ callbacks' = [callbacks EXCEPT ![k] = TRUE]
  /\ NoFrameHandled
  /\ UNCHANGED <<clients, conn, rooms, replay>>

\* handle_connection up to its message loop: the connection is registered
\* under str(id(websocket)), an id that is free again once an earlier
\* connection object is gone.
Connect(c) ==
  /\ conn[c] = "closed"
  /\ clients' = clients \cup {c}
  /\ conn' = [conn EXCEPT ![c] = "open"]
  /\ replay' = [replay EXCEPT ![c] = {}]
  /\ NoFrameHandled
  /\ UNCHANGED <<rooms, callbacks>>

\* The peer closes its socket; the connection's coroutine has not yet
\* reached its finally block.
SocketClosed(c) ==
  /\ conn[c] = "open"
  /\ conn' = [conn EXCEPT ![c] = "closing"]
  /\ NoFrameHandled
  /\ UNCHANGED <<clients, rooms, callbacks, replay>>

UnregisterKeeps(cl, c) == cl

\* if client_id in self.clients: del self.clients[client_id]
Unregister(cl, c) == IF c \in cl THEN cl \ {c} ELSE cl

ScrubRoomsKeeps(rms, c) == rms

\* for room_clients in self.rooms.values(): room_clients.discard(client_id)
ScrubRooms(rms, c) == [r \in RoomIds |-> [rms[r] EXCEPT !.members = @ \ {c}]]

\* handle_connection's finally block.
Disconnect(c) ==
  /\ conn[c] = "closing"
  /\ clients' = Unregister(clients, c)
  /\ rooms' = ScrubRooms(rooms, c)
  /\ conn' = [conn EXCEPT ![c] = "closed"]
  /\ replay' = [replay EXCEPT ![c] = {}]
  /\ NoFrameHandled
  /\ UNCHANGED <<callbacks>>

\* A frame that json.loads rejects, or whose type handle_message does not
\* know.
Malformed(f) == ~f.json \/ f.type \notin {"join", "leave"} \cup NegTypes

HandleDroppedEndsLoop(c, f) ==
  /\ Malformed(f)
  /\ Handled(c, f, None, NoBcast, <<>>)
  /\ conn' = [conn EXCEPT ![c] = "closing"]
  /\ UNCHANGED <<clients, rooms, callbacks, replay>>

\* Such a frame is logged and dropped, inside the message loop.
HandleDropped(c, f) ==
  /\ Malformed(f)
  /\ Handled(c, f, None, NoBcast, <<>>)
  /\ UNCHANGED <<clients, conn, rooms, callbacks, replay>>

\* handle_message, type 'join': join_room.
HandleJoin(c, f) ==
  /\ f.json /\ f.type = "join"
  /\ LET r == RoomOf(f)
         rms == JoinRoomRooms(rooms, c, r)
     IN  /\ rooms' = rms
         /\ replay' = [replay EXCEPT ![c] = @ \cup {r}]
         /\ Handled(c, f, None, BcastRecord(rms, r, c),
                    BroadcastSends(rms, clients, r, Notice("peer_joined", c), c))
  /\ UNCHANGED <<clients, conn, callbacks>>

\* handle_message, type 'leave': leave_room.
HandleLeave(c, f) ==
  /\ f.json /\ f.type = "leave"
  /\ LET r == RoomOf(f)
         rms == LeaveRoomRooms(rooms, c, r)
     IN  /\ rooms' = rms
         /\ replay' = [replay EXCEPT ![c] = @ \ {r}]
         /\ IF r \in RoomKeys(rooms)
            THEN Handled(c, f, None, BcastRecord(rms, r, c),
                         BroadcastSends(rms, clients, r, Notice("peer_left", c), c))
            ELSE Handled(c, f, None, NoBcast, <<>>)
  /\ UNCHANGED <<clients, conn, callbacks>>

\* relay_message: to the named target if it is registered, else to the room.
RelaySends(c, f) ==
  IF f.target # NoClient /\ f.target \in clients
  THEN <<[to |-> f.target, msg |-> Relayed(f, c), ok |-> SendOk(f.target)]>>
  ELSE BroadcastSends(rooms, clients, RoomOf(f), Relayed(f, c), c)

RelayBcast(c, f) ==
  IF f.target # NoClient /\ f.target \in clients THEN NoBcast
  ELSE BcastRecord(rooms, RoomOf(f), c)

\* handle_message, types 'offer', 'answer', 'ice_candidate': the registered
\* callback if there is one (its result is not used), else relay_message.
\* The callback is any callable here: it returns without touching the router.
HandleNegotiation(c, f) ==
  /\ f.json /\ f.type \in NegTypes
  /\ IF callbacks[f.type]
     THEN Handled(c, f, f.type, NoBcast, <<>>)
     ELSE Handled(c, f, None, RelayBcast(c, f), RelaySends(c, f))
  /\ UNCHANGED <<clients, conn, rooms, callbacks, replay>>

\* One iteration of handle_connection's message loop. Frames received before
\* the socket closed are still delivered to the loop.
HandleFrame(c, f) ==
  /\ conn[c] \in {"open", "closing"}
  /\ \/ HandleDropped(c, f)
     \/ HandleJoin(c, f)
     \/ HandleLeave(c, f)
     \/ HandleNegotiation(c, f)

\* A call broadcast_to_room(room, message, exclude) on the router as it
\* stands.
Broadcast(room, exclude) ==
  /\ HandledBy(NoClient, NoFrame, None, NoAnswer,
               BcastRecord(rooms, room, exclude),
               BroadcastSends(rooms, clients, room, Notice("peer_joined", exclude),
                              exclude))
  /\ UNCHANGED <<clients, conn, rooms, callbacks, replay>>

\* Everything outside the signaling server.
beyondSig == <<appVars, peerVars, ctlVars, trackVars, paramVars, iceVars>>

SigNext ==
  \/ \E k \in NegTypes : RegisterCallback(k) /\ UNCHANGED beyondSig
  \/ \E c \in Clients : Connect(c) /\ UNCHANGED beyondSig
  \/ \E c \in Clients : SocketClosed(c) /\ UNCHANGED beyondSig
  \/ \E c \in Clients : Disconnect(c) /\ UNCHANGED beyondSig
  \/ \E c \in Clients, f \in Frames : HandleFrame(c, f) /\ UNCHANGED beyondSig

\* ----------------------------------------------------- RTCPeerConnection
Pcs == 1..MaxPcs
NoPc == 0

\* A connection not yet created, and one fresh from RTCPeerConnection().
\* remote / local: the descriptions are set; dirs: every transceiver has a
\* direction; answer: createAnswer has run; dc: the "controls" channel
\* exists; closed: close() was never called, has run, or has raised.
NoPcRec ==
  [made |-> FALSE, owner |-> NoClient, remote |-> FALSE, dirs |-> FALSE,
   answer |-> FALSE, local |-> FALSE, dc |-> FALSE, closed |-> "no",
   cstate |-> "new"]
FreshPcWithChannel(c) == [NoPcRec EXCEPT !.made = TRUE, !.owner = c, !.dc = TRUE]

\* RTCPeerConnection() as create_peer_connection stores it for peer c.
FreshPc(c) == [NoPcRec EXCEPT !.made = TRUE, !.owner = c]

NextPc(ps) == Cardinality({t \in Pcs : ps[t].made}) + 1

CloseOutcomes == IF closeFaults THEN BOOLEAN ELSE {TRUE}

\* pc.close(): a connection already closed returns at once; otherwise the
\* connection is marked closed as the call starts (or the call raises).
PcClose(rec, ok) ==
  IF rec.closed = "yes" THEN rec
  ELSE [rec EXCEPT !.closed = IF ok THEN "yes" ELSE "raised"]

\* Operations on a closed connection raise InvalidStateError.
Usable(t) == pcs[t].closed # "yes"

\* connectionState as the handler sees it: new -> connected -> failed, or
\* new -> failed ('connecting' and 'disconnected' only log).
NextStates(s) ==
  IF s = "new" THEN {"connected", "failed"}
  ELSE IF s = "connected" THEN {"failed"}
  ELSE {}

\* ------------------------------------------------------------ PeerManager
Registered(p) == {p[c] : c \in Clients} \ {NoPc}

PeersWithoutKeeps(p, c) == p

\* del self.peers[peer_id]
PeersWithout(p, c) == [p EXCEPT ![c] = NoPc]

\* self.peers[peer_id] = pc
PeersWith(p, c, t) == [p EXCEPT ![c] = t]

Idle == [pc |-> "idle", t |-> NoPc]
NoTask == [stage |-> "none", was |-> "new", pc |-> NoPc, ok |-> TRUE, res |-> None]

\* The offer frame a client sends, and handle_offer's response to it.
OfferFrame == [json |-> TRUE, type |-> "offer", room |-> None, target |-> NoClient]
Answer(c) == [type |-> "answer", target |-> c]
Raised == [type |-> "raised", target |-> NoClient]

AppInit ==
  /\ appPc = "init"
  /\ camOpen = FALSE
  /\ trackRunning = FALSE

PeerInit ==
  /\ peers = [c \in Clients |-> NoPc]
  /\ pcs = [t \in Pcs |-> NoPcRec]
  /\ ho = [c \in Clients |-> Idle]
  /\ rm = [t \in Pcs |-> NoTask]
  /\ stopTasks = {}
  /\ stopSeen = {}

\* The signaling server accepts connections and frames from start() until
\* DepthStreamerApp.stop() has stopped it.
Serving == appPc \in {"running", "pmstop", "sigstop"}

\* DepthStreamerApp.start(): the camera is opened and started (or the
\* application gives up), then the signaling server and the video track.
AppStart ==
  /\ appPc = "init"
  /\ \E ok \in BOOLEAN :
       IF ok
       THEN appPc' = "running" /\ camOpen' = TRUE /\ trackRunning' = TRUE
       ELSE appPc' = "failed" /\ camOpen' = FALSE /\ trackRunning' = FALSE
  /\ UNCHANGED <<sigVars, peerVars>>

\* handle_message hands an offer frame to on_offer = handle_offer, which runs
\* create_peer_connection (the connection is created and stored under the
\* sender's id, the video track added, the handlers attached) and suspends
\* in setRemoteDescription.
OfferBegin(c) ==
  /\ Serving
  /\ conn[c] \in {"open", "closing"}
  /\ callbacks["offer"]
  /\ ho[c].pc = "idle"
  /\ NextPc(pcs) <= MaxPcs
  /\ LET t == NextPc(pcs)
     IN  /\ pcs' = [pcs EXCEPT ![t] = FreshPc(c)]
         /\ peers' = PeersWith(peers, c, t)
         /\ ho' = [ho EXCEPT ![c] = [pc |-> "setRemote", t |-> t]]
         /\ stopSeen' = IF appPc = "pmstop" THEN stopSeen \cup {t} ELSE stopSeen
  /\ NoFrameHandled
  /\ UNCHANGED <<clients, conn, rooms, callbacks, replay, appVars, rm,
                 stopTasks, closeFaults>>

\* An exception leaves handle_offer and handle_message; handle_connection
\* logs it and goes on to the next frame.
OfferRaises(c) ==
  /\ ho' = [ho EXCEPT ![c] = Idle]
  /\ pcs' = pcs
  /\ HandledBy(c, OfferFrame, "offer", Raised, NoBcast, <<>>)

\* setRemoteDescription returns (or rejects the offer's description, or finds
\* the connection closed); unset transceiver directions become sendrecv and
\* handle_offer suspends in createAnswer.
OfferSetRemote(c) ==
  /\ ho[c].pc = "setRemote"
  /\ LET t == ho[c].t
     IN  \E ok \in (IF Usable(t) THEN BOOLEAN ELSE {FALSE}) :
           IF ok
           THEN /\ pcs' = [pcs EXCEPT ![t].remote = TRUE, ![t].dirs = TRUE]
                /\ ho' = [ho EXCEPT ![c].pc = "createAnswer"]
                /\ NoFrameHandled
           ELSE OfferRaises(c)
  /\ UNCHANGED <<clients, conn, rooms, callbacks, replay, appVars, peers, rm,
                 stopTasks, stopSeen, closeFaults>>

\* createAnswer returns; handle_offer suspends in setLocalDescription.
OfferCreateAnswer(c) ==
  /\ ho[c].pc = "createAnswer"
  /\ LET t == ho[c].t
     IN  IF Usable(t)
         THEN /\ pcs' = [pcs EXCEPT ![t].answer = TRUE]
              /\ ho' = [ho EXCEPT ![c].pc = "setLocal"]
              /\ NoFrameHandled
         ELSE OfferRaises(c)
  /\ UNCHANGED <<clients, conn, rooms, callbacks, replay, appVars, peers, rm,
                 stopTasks, stopSeen, closeFaults>>

\* setLocalDescription returns; handle_offer creates the "controls" data
\* channel and returns its answer to handle_message, which drops it and
\* returns.
OfferSetLocal(c) ==
  /\ ho[c].pc = "setLocal"
  /\ LET t == ho[c].t
     IN  IF Usable(t)
         THEN /\ pcs' = [pcs EXCEPT ![t].local = TRUE, ![t].dc = TRUE]
              /\ ho' = [ho EXCEPT ![c] = Idle]
              /\ HandledBy(c, OfferFrame, "offer", Answer(c), NoBcast, <<>>)
         ELSE OfferRaises(c)
  /\ UNCHANGED <<clients, conn, rooms, callbacks, replay, appVars, peers, rm,
                 stopTasks, stopSeen, closeFaults>>

\* remove_peer(c) up to its suspension in pc.close(), run for connection t's
\* 'failed' handler: nothing if c is no key; else the stored connection is
\* closed, and if close() returns at once the entry is deleted in the same
\* step.
RemoveBegin(t, c, ps) ==
  IF peers[c] = NoPc
  THEN /\ rm' = [rm EXCEPT ![t] = [stage |-> "done", was |-> pcs[t].cstate,
                                   pc |-> NoPc, ok |-> TRUE, res |-> "absent"]]
       /\ pcs' = ps
       /\ peers' = peers
  ELSE LET cur == peers[c]
       IN  IF ps[cur].closed = "yes"
           THEN /\ rm' = [rm EXCEPT ![t] = [stage |-> "done", was |-> pcs[t].cstate,
                                            pc |-> cur, ok |-> TRUE,
                                            res |-> "removed"]]
                /\ pcs' = ps
                /\ peers' = PeersWithout(peers, c)
           ELSE \E ok \in CloseOutcomes :
                  /\ rm' = [rm EXCEPT ![t] = [stage |-> "closing",
                                              was |-> pcs[t].cstate,
                                              pc |-> cur, ok |-> ok,
                                              res |-> None]]
                  /\ pcs' = [ps EXCEPT ![cur] = PcClose(ps[cur], ok)]
                  /\ peers' = peers

\* The transport of connection t reports a new connectionState; the handler
\* attached by create_peer_connection logs it and, on 'failed', awaits
\* remove_peer(peer_id).
ConnectionStateChange(t, s) ==
  /\ pcs[t].made
  /\ Usable(t)
  /\ s \in NextStates(pcs[t].cstate)
  /\ LET ps == [pcs EXCEPT ![t].cstate = s]
     IN  IF s = "failed"
         THEN RemoveBegin(t, pcs[t].owner, ps)
         ELSE pcs' = ps /\ UNCHANGED <<peers, rm>>
  /\ UNCHANGED <<sigVars, appVars, ho, stopTasks, stopSeen, closeFaults>>

\* remove_peer after pc.close(): close() raised and the exception leaves the
\* handler, or del self.peers[peer_id] runs (KeyError if the key is gone).
RemoveEnd(t) ==
  /\ rm[t].stage = "closing"
  /\ LET c == pcs[t].owner
     IN  IF ~rm[t].ok
         THEN /\ rm' = [rm EXCEPT ![t].stage = "done", ![t].res = "raised"]
              /\ peers' = peers
         ELSE IF peers[c] = NoPc
         THEN /\ rm' = [rm EXCEPT ![t].stage = "done", ![t].res = "keyerror"]
              /\ peers' = peers
         ELSE /\ rm' = [rm EXCEPT ![t].stage = "done", ![t].res = "removed"]
              /\ peers' = PeersWithout(peers, c)
  /\ UNCHANGED <<sigVars, appVars, pcs, ho, stopTasks, stopSeen, closeFaults>>

\* DepthStreamerApp.stop() into PeerManager.stop(): the video track is
\* stopped, a close() coroutine is made for every stored connection, and
\* stop() suspends in gather; with no connection it clears the dict and
\* goes on to stop the signaling server.
AppStopBegin ==
  /\ appPc = "running"
  /\ trackRunning' = FALSE
  /\ stopTasks' = Registered(peers)
  /\ stopSeen' = Registered(peers)
  /\ appPc' = IF Registered(peers) = {} THEN "sigstop" ELSE "pmstop"
  /\ UNCHANGED <<sigVars, camOpen, peers, pcs, ho, rm, closeFaults>>

\* gather runs one of the close() coroutines; what it raises is collected
\* (return_exceptions=True).
StopClose(t) ==
  /\ appPc = "pmstop"
  /\ t \in stopTasks
  /\ \E ok \in CloseOutcomes : pcs' = [pcs EXCEPT ![t] = PcClose(pcs[t], ok)]
  /\ stopTasks' = stopTasks \ {t}
  /\ UNCHANGED <<sigVars, appVars, peers, ho, rm, stopSeen, closeFaults>>

\* gather returns: self.peers.clear(), and PeerManager.stop() returns.
StopGathered ==
  /\ appPc = "pmstop"
  /\ stopTasks = {}
  /\ peers' = [c \in Clients |-> NoPc]
  /\ appPc' = "sigstop"
  /\ UNCHANGED <<sigVars, camOpen, trackRunning, pcs, ho, rm, stopTasks,
                 stopSeen, closeFaults>>

\* The signaling server has stopped; camera.close() releases the sensor.
AppStopEnd ==
  /\ appPc = "sigstop"
  /\ appPc' = "stopped"
  /\ camOpen' = FALSE
  /\ UNCHANGED <<sigVars, trackRunning, peerVars>>

\* The router's part in the peer manager's runs: on_offer is wired to
\* handle_offer and clients connect.
\* The candidate frames: 'candidate' holds a dict or something else.
CandShapes == {"dict", "other"}
IceFrame == [json |-> TRUE, type |-> "ice_candidate", room |-> None, target |-> NoClient]

IceInit ==
  /\ iceApplied = [t \in Pcs |-> {}]
  /\ iceLog = <<>>

AcceptsCandidateAlways(rec) == TRUE

\* if pc.remoteDescription
AcceptsCandidate(rec) == rec.remote

\* handle_message hands an ice_candidate frame to on_ice_candidate =
\* handle_ice_candidate: with a stored connection whose remote description is
\* set and a dict for a candidate, addIceCandidate is awaited, and what it
\* raises is logged; in every other case the candidate is let go.
IceCandidate(c, shape, ok) ==
  /\ Serving
  /\ conn[c] \in {"open", "closing"}
  /\ callbacks["ice_candidate"]
  /\ ho[c].pc = "idle"
  /\ Len(iceLog) < MaxCands
  /\ LET t == peers[c]
         takes == t # NoPc /\ AcceptsCandidate(pcs[t]) /\ shape = "dict" /\ ok
     IN  /\ iceLog' = Append(iceLog,
                             [from |-> c, pc |-> t,
                              remote |-> t # NoPc /\ pcs[t].remote,
                              applied |-> takes])
         /\ iceApplied' = IF takes
                          THEN [iceApplied EXCEPT ![t] = @ \cup {Len(iceLog) + 1}]
                          ELSE iceApplied
  /\ Handled(c, IceFrame, "ice_candidate", NoBcast, <<>>)
  /\ UNCHANGED <<clients, conn, rooms, callbacks, replay, appVars, peerVars>>

\* Offers, candidates and transport failures of connected clients.
IceNext ==
  \/ \E c \in Clients : OfferBegin(c) /\ UNCHANGED beyondPeers
  \/ \E c \in Clients : OfferSetRemote(c) /\ UNCHANGED beyondPeers
  \/ \E c \in Clients : OfferCreateAnswer(c) /\ UNCHANGED beyondPeers
  \/ \E c \in Clients : OfferSetLocal(c) /\ UNCHANGED beyondPeers
  \/ \E c \in Clients, shape \in CandShapes, ok \in BOOLEAN :
       IceCandidate(c, shape, ok) /\ UNCHANGED <<ctlVars, trackVars, paramVars>>
  \/ \E t \in Pcs, s \in {"connected", "failed"} :
       ConnectionStateChange(t, s) /\ UNCHANGED beyondPeers
  \/ \E t \in Pcs : RemoveEnd(t) /\ UNCHANGED beyondPeers

PeerNext ==
  \/ AppStart /\ UNCHANGED beyondPeers
  \/ RegisterCallback("offer") /\ UNCHANGED beyondSig
  \/ \E c \in Clients : Serving /\ Connect(c) /\ UNCHANGED beyondSig
  \/ \E c \in Clients : OfferBegin(c) /\ UNCHANGED beyondPeers
  \/ \E c \in Clients : OfferSetRemote(c) /\ UNCHANGED beyondPeers
  \/ \E c \in Clients : OfferCreateAnswer(c) /\ UNCHANGED beyondPeers
  \/ \E c \in Clients : OfferSetLocal(c) /\ UNCHANGED beyondPeers
  \/ \E t \in Pcs, s \in {"connected", "failed"} :
       ConnectionStateChange(t, s) /\ UNCHANGED beyondPeers
  \/ \E t \in Pcs : RemoveEnd(t) /\ UNCHANGED beyondPeers
  \/ AppStopBegin /\ UNCHANGED beyondPeers
  \/ \E t \in Pcs : StopClose(t) /\ UNCHANGED beyondPeers
  \/ StopGathered /\ UNCHANGED beyondPeers
  \/ AppStopEnd /\ UNCHANGED beyondPeers

\* ------------------------------------------------- control data channel
CtlTypes == {"set_range", "set_confidence_threshold", "set_colormap",
             "set_fps_limit"}

\* The integers a command's payload carries, and the colormap names.
CtlValues == {-5, 999}
ColormapNames == {"jet", "JET", "bogus"}

\* DepthFrameProcessor.COLORMAPS (its keys)
Colormaps == {"RAINBOW", "JET", "TURBO", "HOT", "COOL", "HSV", "BONE"}

\* str.upper()
Upper(name) == IF name = "jet" THEN "JET" ELSE IF name = "bogus" THEN "BOGUS" ELSE name

\* What arrives on a "controls" channel: text that is no JSON, or an object
\* with a type and (payload = TRUE) the payload key its command reads, with
\* its value. "get_status" stands for every type to_command does not know.
CtlMessages ==
  {[json |-> FALSE, type |-> None, payload |-> FALSE, value |-> 0, name |-> None]}
  \cup [json : {TRUE}, type : CtlTypes \cup {"get_status"}, payload : {FALSE},
        value : {0}, name : {None}]
  \cup [json : {TRUE}, type : (CtlTypes \ {"set_colormap"}) \cup {"get_status"},
        payload : {TRUE}, value : CtlValues, name : {None}]
  \cup [json : {TRUE}, type : {"set_colormap"}, payload : {TRUE}, value : {0},
        name : ColormapNames]

WellFormed(m) == m.json /\ m.type \in CtlTypes /\ m.payload

\* ControlMessage.to_command: the command object, or the exception raised.
ToCommand(m) ==
  IF m.type \notin CtlTypes THEN "ValueError"
  ELSE IF ~m.payload THEN "KeyError"
  ELSE m.type

\* ControlHandler.handle_command as main.py wires it: camera_controller is
\* the ArducamDepthCamera, which has set_range only, and stream_controller is
\* the DepthFrameProcessor, which has no set_fps_limit; the AttributeError is
\* caught and becomes an error response.
HandleCommand(cmd) ==
  IF cmd = "set_range" THEN [type |-> "ack", command_type |-> "set_range"]
  ELSE IF cmd = "set_confidence_threshold"
  THEN [type |-> "error", command_type |-> "setconfidencecommand"]
  ELSE IF cmd = "set_colormap"
  THEN [type |-> "error", command_type |-> "setcolormapcommand"]
  ELSE [type |-> "error", command_type |-> "setfpslimitcommand"]

SetRangeAnyCommand(cur, cmd, v, accepted) == v

\* The sensor's range after handle_command(cmd): set_range reaches
\* ArducamDepthCamera.set_range, which returns at once if the camera is not
\* open and swallows what setControl raises; no other command touches it.
SetRange(cur, cmd, v, accepted) ==
  IF cmd = "set_range" /\ camOpen /\ accepted THEN v ELSE cur

\* The peers whose connection carries a "controls" channel.
HasChannel(p) == \E t \in Pcs : pcs[t].made /\ pcs[t].owner = p /\ pcs[t].dc

\* How many messages the channels have delivered so far.
Received ==
  Cardinality({x \in Clients \X (1..MaxCtl) : x[2] <= Len(ctlRecv[x[1]])})

CtlInit ==
  /\ ctlRecv = [p \in Clients |-> <<>>]
  /\ ctlTasks = <<>>
  /\ dispatched = <<>>
  /\ chanOut = [p \in Clients |-> <<>>]

\* handle_data_channel_message(p, m): json.loads, then create_task of
\* process_control_message (the task joins the loop's FIFO ready queue);
\* text that is no JSON is logged and dropped.
CtlReceive(p, m) ==
  /\ HasChannel(p)
  /\ Received < MaxCtl
  /\ ctlRecv' = [ctlRecv EXCEPT ![p] = Append(@, m)]
  /\ ctlTasks' = IF m.json
                 THEN Append(ctlTasks, [peer |-> p, n |-> Len(ctlRecv[p]) + 1])
                 ELSE ctlTasks
  /\ UNCHANGED <<dispatched, chanOut>>

\* The event loop runs the oldest ready task. process_control_message never
\* suspends (no controller method awaits anything), so it runs to its end:
\* from_dict, to_command, handle_command, and the response is logged. Nothing
\* is written to a data channel.
CtlRun ==
  /\ ctlTasks # <<>>
  /\ LET task == Head(ctlTasks)
         m == ctlRecv[task.peer][task.n]
         cmd == ToCommand(m)
     IN  \E accepted \in (IF cmd = "set_range" THEN BOOLEAN ELSE {FALSE}) :
           /\ depthRange' = IF cmd \in CtlTypes
                             THEN SetRange(depthRange, cmd, m.value, accepted)
                             ELSE depthRange
           /\ dispatched' =
                IF cmd \in CtlTypes
                THEN Append(dispatched, [peer |-> task.peer, n |-> task.n,
                                         applied |-> accepted /\ camOpen,
                                         response |-> HandleCommand(cmd)])
                ELSE dispatched
  /\ ctlTasks' = Tail(ctlTasks)
  /\ UNCHANGED <<ctlRecv, chanOut, colormap>>

\* Everything outside the control path.
beyondCtl == <<sigVars, appVars, peerVars, trackVars, iceVars>>

CtlNext ==
  \/ \E p \in Clients, m \in CtlMessages :
       CtlReceive(p, m) /\ UNCHANGED <<beyondCtl, paramVars>>
  \/ CtlRun /\ UNCHANGED beyondCtl

\* --------------------------------------------------- DepthVideoStreamTrack
\* Time is counted in units of 1/TicksPerSecond s. time.time() reads seconds
\* since 1970: at Epoch, the process's start, it is already further from 0
\* (the initial last_frame_time) than any frame interval.
TicksPerSecond == 30
MinFps == 5
MaxFps == 30
DefaultFps == 30
Epoch == TicksPerSecond \div MinFps

\* The fps values set_fps_limit is called with (1.0 / fps is a whole number
\* of time units for each value they clamp to).
FpsInputs == {1, 5, 10, 30, 100}

\* max(5, min(30, fps))
ClampFps(fps) ==
  LET lo == IF fps < MaxFps THEN fps ELSE MaxFps
  IN  IF lo > MinFps THEN lo ELSE MinFps

IntervalHalved(fps) == TicksPerSecond \div (2 * fps)

\* self.frame_interval = 1.0 / fps_limit
Interval(fps) == TicksPerSecond \div fps

AheadNever(t, last, fps) == FALSE

\* current_time - self.last_frame_time < self.frame_interval
AheadOfLimit(t, last, fps) == t - last < Interval(fps)

\* Images: np.zeros of some shape, or what process_frame rendered from the
\* sensor frame that the tick beginning at time `at` requested.
NoImage == [kind |-> "none", res |-> "none", at |-> 0]
Blank(res) == [kind |-> "blank", res |-> res, at |-> 0]
Depth(t) == [kind |-> "depth", res |-> "sensor", at |-> t]

\* ArducamDepthCamera: initialize_camera leaves the camera open and started
\* (with its info read), close() stops and closes it; the info stays.
CamStarted == camOpen
CamInfoKnown == appPc \in {"running", "pmstop", "sigstop", "stopped"}

\* request_frame: None unless the camera is started; else what the blocking
\* requestFrame call gives within its timeout.
RequestOutcomes == IF CamStarted THEN {"frame", "none"} ELSE {"none"}

\* process_frame: the rendered image; an exception while rendering is caught
\* there and a black 480x640 image is returned in its place.
ProcessFrame(t, ok) == IF ok THEN Depth(t) ELSE Blank("480x640")

FallbackAlwaysBlank(cache) == Blank("180x240")

\* recv, lines 81-94: the cached frame, or a black frame of the camera's
\* resolution, or of 180x240 if get_camera_info raises.
Fallback(cache) ==
  IF cache # NoImage THEN cache
  ELSE IF CamInfoKnown THEN Blank("sensor")
  ELSE Blank("180x240")

Callers == 1..MaxCallers
\* frames / rel: the sensor frames the tick has obtained from request_frame
\* and the release_frame calls it has made.
IdleTick == [pc |-> "idle", kind |-> "none", img |-> NoImage, frames |-> 0, rel |-> 0]
NoTick ==
  [phase |-> "none", caller |-> 0, kind |-> "none", at |-> 0, req |-> FALSE,
   got |-> "none", render |-> "none", preCache |-> NoImage, preLast |-> 0,
   ret |-> NoImage, frames |-> 0, rel |-> 0]

TrackInit ==
  /\ now = Epoch
  /\ fpsLimit = DefaultFps
  /\ lastFrameTime = 0
  /\ currentFrame = NoImage
  /\ tk = [k \in Callers |-> IdleTick]
  /\ lastTick = NoTick

\* What recv did up to its await of next_timestamp.
Began(k, kind, req, got, render) ==
  lastTick' = [phase |-> "begin", caller |-> k, kind |-> kind, at |-> now,
               req |-> req, got |-> got, render |-> render,
               preCache |-> currentFrame, preLast |-> lastFrameTime,
               ret |-> NoImage,
               frames |-> IF got = "frame" THEN 1 ELSE 0,
               rel |-> IF got = "frame" THEN 1 ELSE 0]

\* recv from its call to its await of next_timestamp. Nothing before that
\* await suspends: request_frame, process_frame and release_frame are
\* coroutines without an await of their own, so the clock moves on (by d,
\* while requestFrame blocks) but no other coroutine runs. The sleep of line
\* 55 needs time.time() < frame_interval with nothing cached yet, which the
\* clock never reads.
TickBegin(k) ==
  /\ tk[k].pc = "idle"
  /\ IF ~trackRunning
     THEN /\ tk' = [tk EXCEPT ![k] = [pc |-> "ts", kind |-> "off", img |-> NoImage,
                                      frames |-> 0, rel |-> 0]]
          /\ Began(k, "off", FALSE, "none", "none")
          /\ UNCHANGED <<now, lastFrameTime, currentFrame>>
     ELSE IF AheadOfLimit(now, lastFrameTime, fpsLimit) /\ currentFrame # NoImage
     THEN /\ tk' = [tk EXCEPT ![k] = [pc |-> "ts", kind |-> "cached", img |-> NoImage,
                                      frames |-> 0, rel |-> 0]]
          /\ Began(k, "cached", FALSE, "none", "none")
          /\ UNCHANGED <<now, lastFrameTime, currentFrame>>
     ELSE \E d \in 0..MaxLatency, got \in RequestOutcomes, ok \in BOOLEAN :
            /\ now + d <= Epoch + MaxTime
            /\ now' = now + d
            /\ IF got = "frame"
               THEN LET img == ProcessFrame(now, ok)
                    IN  /\ currentFrame' = img
                        /\ lastFrameTime' = now
                        /\ tk' = [tk EXCEPT ![k] = [pc |-> "ts", kind |-> "produced",
                                                    img |-> img, frames |-> 1,
                                                    rel |-> 1]]
                        /\ Began(k, "produced", TRUE, got,
                                 IF ok THEN "ok" ELSE "error")
               ELSE /\ ok
                    /\ tk' = [tk EXCEPT ![k] = [pc |-> "ts", kind |-> "fallback",
                                                img |-> NoImage, frames |-> 0,
                                                rel |-> 0]]
                    /\ Began(k, "fallback", TRUE, got, "none")
                    /\ UNCHANGED <<lastFrameTime, currentFrame>>
  /\ UNCHANGED <<fpsLimit, confidence>>

\* recv after next_timestamp: the frame handed to the caller. The cached and
\* the fallback path read self._current_frame only now. On the producing
\* path the frame is built inside the try block of lines 62-79: if building
\* it raises, the except branch logs, calls release_frame and falls through
\* to the fallback path, which awaits next_timestamp once more.
TickReturn(k) ==
  /\ tk[k].pc = "ts"
  /\ \E built \in (IF tk[k].kind = "produced" THEN BOOLEAN ELSE {TRUE}) :
       IF built
       THEN /\ LET ret == IF tk[k].kind = "off" THEN Blank("480x640")
                          ELSE IF tk[k].kind = "cached" THEN currentFrame
                          ELSE IF tk[k].kind = "produced" THEN tk[k].img
                          ELSE Fallback(currentFrame)
               IN  lastTick' = [NoTick EXCEPT !.phase = "return", !.caller = k,
                                              !.kind = tk[k].kind, !.ret = ret,
                                              !.frames = tk[k].frames,
                                              !.rel = tk[k].rel]
            /\ tk' = [tk EXCEPT ![k] = IdleTick]
       ELSE /\ lastTick' = [NoTick EXCEPT !.phase = "except", !.caller = k,
                                          !.kind = "recover",
                                          !.frames = tk[k].frames,
                                          !.rel = tk[k].rel + 1]
            /\ tk' = [tk EXCEPT ![k] = [pc |-> "ts", kind |-> "recover",
                                        img |-> NoImage, frames |-> tk[k].frames,
                                        rel |-> tk[k].rel + 1]]
  /\ UNCHANGED <<now, fpsLimit, lastFrameTime, currentFrame, confidence>>

\* Time passes.
Advance ==
  /\ now < Epoch + MaxTime
  /\ now' = now + 1
  /\ lastTick' = NoTick
  /\ UNCHANGED <<fpsLimit, lastFrameTime, currentFrame, tk, confidence>>

\* DepthVideoStreamTrack.set_fps_limit
TrackSetFpsLimit(fps) ==
  /\ fpsLimit' = ClampFps(fps)
  /\ fpsLimit' # fpsLimit
  /\ lastTick' = NoTick
  /\ UNCHANGED <<now, lastFrameTime, currentFrame, tk, confidence>>

beyondTrack == <<sigVars, peerVars, ctlVars, paramVars, iceVars>>

TrackNext ==
  \/ \E k \in Callers : TickBegin(k) /\ UNCHANGED <<appVars, beyondTrack>>
  \/ \E k \in Callers : TickReturn(k) /\ UNCHANGED <<appVars, beyondTrack>>
  \/ Advance /\ UNCHANGED <<appVars, beyondTrack>>
  \/ \E fps \in FpsInputs : TrackSetFpsLimit(fps) /\ UNCHANGED <<appVars, beyondTrack>>
  \/ AppStopBegin /\ UNCHANGED beyondPeers
  \/ AppStopEnd /\ UNCHANGED beyondPeers

\* ---------------------------------------------------- DepthFrameProcessor
MinConfidence == 0
MaxConfidence == 255
ConfigConfidence == 30

\* max(0, min(255, threshold))
ClampConfidence(t) ==
  LET lo == IF t < MaxConfidence THEN t ELSE MaxConfidence
  IN  IF lo > MinConfidence THEN lo ELSE MinConfidence

ConfigColormap == "RAINBOW"
ConfigMaxDistance == 4000

\* DepthFrameProcessor.set_colormap: a name that is a key of COLORMAPS in
\* upper case is taken, any other only logged.
SetColormap(cur, name) == IF Upper(name) \in Colormaps THEN Upper(name) ELSE cur

\* __init__ sets 30 and RAINBOW; DepthStreamerApp.__init__ then applies the
\* configured threshold and colormap through the setters, and
\* initialize_camera the configured range.
RenderInit ==
  /\ confidence = ClampConfidence(ConfigConfidence)
  /\ colormap = SetColormap("RAINBOW", ConfigColormap)
  /\ depthRange = ConfigMaxDistance

\* ------------------------------------------------------- specifications
Init ==
  SigInit /\ AppInit /\ PeerInit /\ CtlInit /\ TrackInit /\ RenderInit /\ IceInit
    /\ closeFaults = FALSE
InitFaulty ==
  SigInit /\ AppInit /\ PeerInit /\ CtlInit /\ TrackInit /\ RenderInit /\ IceInit
    /\ closeFaults = TRUE

\* Every client connected and negotiated, in turn: the state the last
\* client's handle_offer leaves behind.
Established(c) ==
  [FreshPc(c) EXCEPT !.remote = TRUE, !.dirs = TRUE, !.answer = TRUE,
                     !.local = TRUE, !.dc = TRUE]
Negotiated == {c \in Clients : c <= MaxPcs}
InitNegotiated ==
  /\ clients = Clients
  /\ conn = [c \in Clients |-> "open"]
  /\ rooms = NoRooms
  /\ callbacks = [k \in NegTypes |-> k = "offer"]
  /\ replay = [c \in Clients |-> {}]
  /\ lastFrom = Min({NumClients, MaxPcs})
  /\ lastFrame = OfferFrame
  /\ preRooms = NoRooms
  /\ handed = "offer"
  /\ returned = Answer(Min({NumClients, MaxPcs}))
  /\ lastBcast = NoBcast
  /\ lastSends = <<>>
  /\ gathered = "none"
  /\ appPc = "running"
  /\ camOpen = TRUE
  /\ trackRunning = TRUE
  /\ peers = [c \in Clients |-> IF c \in Negotiated THEN c ELSE NoPc]
  /\ pcs = [t \in Pcs |-> IF t \in Negotiated THEN Established(t) ELSE NoPcRec]
  /\ ho = [c \in Clients |-> Idle]
  /\ rm = [t \in Pcs |-> NoTask]
  /\ stopTasks = {}
  /\ stopSeen = {}
  /\ closeFaults = FALSE
  /\ CtlInit
  /\ TrackInit
  /\ RenderInit
  /\ IceInit

\* The signaling router on its own.
SpecSignaling == Init /\ [][SigNext]_vars

\* The peer manager behind the router; close() never raises.
SpecPeers == Init /\ [][PeerNext]_vars

\* The same, and the event loop keeps running whatever is ready.
SpecPeersLive == Init /\ [][PeerNext]_vars /\ WF_vars(PeerNext)

\* The peer manager with close() free to raise.
SpecPeersFaulty == InitFaulty /\ [][PeerNext]_vars

\* The application started, nobody connected yet: what AppStart leaves.
InitStreaming ==
  /\ SigInit /\ PeerInit /\ CtlInit /\ TrackInit /\ RenderInit /\ IceInit
  /\ closeFaults = FALSE
  /\ appPc = "running"
  /\ camOpen = TRUE
  /\ trackRunning = TRUE

\* The video track between the application's start and its stop.
SpecTrack == InitStreaming /\ [][TrackNext]_vars

\* The control channels of negotiated sessions.
SpecControl == InitNegotiated /\ [][CtlNext]_vars

\* The application running, on_offer and on_ice_candidate assigned, every
\* client connected and none negotiated yet.
InitWired ==
  /\ clients = Clients
  /\ conn = [c \in Clients |-> "open"]
  /\ rooms = NoRooms
  /\ callbacks = [k \in NegTypes |-> k \in {"offer", "ice_candidate"}]
  /\ replay = [c \in Clients |-> {}]
  /\ lastFrom = NoClient
  /\ lastFrame = NoFrame
  /\ preRooms = NoRooms
  /\ handed = None
  /\ returned = NoAnswer
  /\ lastBcast = NoBcast
  /\ lastSends = <<>>
  /\ gathered = "none"
  /\ appPc = "running"
  /\ camOpen = TRUE
  /\ trackRunning = TRUE
  /\ PeerInit
  /\ closeFaults = FALSE
  /\ CtlInit /\ TrackInit /\ RenderInit /\ IceInit

\* A router with up to NumSockets connections, open or closed by the peer
\* but not yet unregistered, and any of them in the room 'default'.
Sockets == 1..NumSockets
InitRooms ==
  /\ conn \in [Sockets -> {"open", "closing", "closed"}]
  /\ clients = {c \in Sockets : conn[c] # "closed"}
  /\ rooms \in {NoRooms} \cup
       {[NoRooms EXCEPT !["default"] = [present |-> TRUE, members |-> M]] :
          M \in SUBSET clients \ {{}}}
  /\ callbacks = [k \in NegTypes |-> FALSE]
  /\ replay = [c \in Clients |-> {}]
  /\ lastFrom = NoClient
  /\ lastFrame = NoFrame
  /\ preRooms = NoRooms
  /\ handed = None
  /\ returned = NoAnswer
  /\ lastBcast = NoBcast
  /\ lastSends = <<>>
  /\ gathered = "none"
  /\ appPc = "running"
  /\ camOpen = TRUE
  /\ trackRunning = TRUE
  /\ PeerInit
  /\ closeFaults = FALSE
  /\ CtlInit /\ TrackInit /\ RenderInit /\ IceInit

BroadcastNext ==
  \E room \in RoomIds, exclude \in Sockets \cup {NoClient} :
    Broadcast(room, exclude) /\ UNCHANGED beyondSig

\* broadcast_to_room on every router it can find.
SpecBroadcast == InitRooms /\ [][BroadcastNext]_vars

\* Negotiation and trickled candidates.
SpecIce == InitWired /\ [][IceNext]_vars

\* ------------------------------------------------------------- claims
\* The un-closed connections created for client c.
Unclosed(c) == {t \in Pcs : pcs[t].made /\ pcs[t].owner = c /\ pcs[t].closed # "yes"}

\* C1: a client id never has more than one un-closed transport: a second
\* offer from the same client closes the earlier session's transport before
\* the new one is registered.
C1_OneUnclosedTransport == \A c \in Clients : Cardinality(Unclosed(c)) <= 1

\* The sends of the frame just handled that carry an answer to client c.
AnswerSends(c) ==
  {i \in 1..Len(lastSends) : lastSends[i].to = c /\ lastSends[i].msg.type = "answer"}

\* C2: once handle_offer has returned an answer for B's offer, an answer is
\* eventually sent to B's own connection.
C2_AnswerReachesOfferer ==
  \A c \in Clients :
    (lastFrame.type = "offer" /\ lastFrom = c /\ returned = Answer(c))
      ~> (AnswerSends(c) # {})

\* The responses on p's channel that answer the n-th message p's channel
\* delivered, and those that p's channel carries for another session.
ResponsesTo(p, n) ==
  {i \in 1..Len(chanOut[p]) : chanOut[p][i].peer = p /\ chanOut[p][i].n = n}
Strays(p) == {i \in 1..Len(chanOut[p]) : chanOut[p][i].peer # p}

\* C3: once every handling task has run, each well-formed control message a
\* session's channel delivered has exactly one response on that channel, and
\* no channel carries a response to another session's message.
C3_OneResponsePerCommand ==
  ctlTasks = <<>> =>
    \A p \in Clients :
      /\ Strays(p) = {}
      /\ \A n \in 1..Len(ctlRecv[p]) :
           WellFormed(ctlRecv[p][n]) => Cardinality(ResponsesTo(p, n)) = 1

\* The place of p's n-th message in the dispatch order (0: not dispatched).
DispatchedAt(p, n) ==
  LET at == {i \in 1..Len(dispatched) : dispatched[i].peer = p /\ dispatched[i].n = n}
  IN  IF at = {} THEN 0 ELSE Min(at)

\* Of two well-formed commands of one session, the later is dispatched only
\* after the earlier has been.
DispatchedInOrder ==
  \A p \in Clients : \A a, b \in 1..Len(ctlRecv[p]) :
    (a < b /\ WellFormed(ctlRecv[p][a]) /\ WellFormed(ctlRecv[p][b])
       /\ DispatchedAt(p, b) # 0)
      => (DispatchedAt(p, a) # 0 /\ DispatchedAt(p, a) < DispatchedAt(p, b))

\* C4: of two well-formed commands received on one session's channel, the
\* one received first has been dispatched and answered by the time the one
\* received second is dispatched.
C4_DispatchedAndAnsweredInOrder ==
  /\ DispatchedInOrder
  /\ \A p \in Clients : \A a, b \in 1..Len(ctlRecv[p]) :
       (a < b /\ WellFormed(ctlRecv[p][a]) /\ WellFormed(ctlRecv[p][b])
          /\ DispatchedAt(p, b) # 0)
         => ResponsesTo(p, a) # {}

C6_StopClosesEverySession ==
  [][/\ (appPc # "sigstop" /\ appPc' = "sigstop")
          => /\ Registered(peers') = {}
             /\ \A t \in stopSeen' : pcs'[t].closed # "no"
             /\ ~trackRunning'
     /\ (appPc # "stopped" /\ appPc' = "stopped") => ~camOpen']_vars

\* The room of the frame handled by the step just taken, and its members
\* other than the sender as the frame found them.
LastRoom == RoomOf(lastFrame)
LastOthers == Members(preRooms, LastRoom) \ {lastFrom}
SendsTo(c, msg) ==
  Cardinality({i \in 1..Len(lastSends) :
                 lastSends[i].to = c /\ lastSends[i].msg = msg})

\* C11: the rooms map never holds a room whose member set is empty.
C11_NoEmptyRoom == \A r \in RoomKeys(rooms) : rooms[r].members # {}

\* C12: a connection whose cleanup has run is in no room's member set and
\* not in the registry, and running the cleanup again changes nothing.
C12_DisconnectScrubsOnce ==
  \A c \in Clients :
    conn[c] = "closed" =>
      /\ c \notin clients
      /\ \A r \in RoomIds : c \notin rooms[r].members
      /\ Unregister(clients, c) = clients
      /\ ScrubRooms(rooms, c) = rooms

\* A disconnected client next to a room that is still a key but has lost
\* its last member: only the cleanup leaves such a room behind.
C12_Witness ==
  \E c \in Clients, r \in RoomKeys(rooms) :
    conn[c] = "closed" /\ rooms[r].members = {} /\ clients # {}

\* The clients the frame just handled was sent to.
SentTo == {lastSends[i].to : i \in 1..Len(lastSends)}
SenderAttached == \A i \in 1..Len(lastSends) : lastSends[i].msg.sender = lastFrom

\* C13: an offer, answer or ice_candidate goes to the registered callback
\* and then to no client; with no callback it is sent, sender attached, to
\* the named target only, or with no target named to every member of its
\* room but the sender.
C13_CallbackOrRelay ==
  (lastFrame.type \in NegTypes /\ lastFrom # NoClient) =>
    IF callbacks[lastFrame.type]
    THEN handed = lastFrame.type /\ lastSends = <<>>
    ELSE /\ handed = None
         /\ SenderAttached
         /\ IF lastFrame.target # NoClient
            THEN SentTo \subseteq {lastFrame.target}
            ELSE SentTo = Members(preRooms, LastRoom) \ {lastFrom}

\* C14: a frame that is no JSON or has an unknown type changes neither the
\* rooms nor the registry, sends nothing, leaves its sender registered and
\* its connection in the message loop, where the next frame is handled.
C14_MalformedDropped ==
  [][(lastFrom' # NoClient /\ Malformed(lastFrame'))
       => /\ rooms' = rooms /\ clients' = clients /\ conn' = conn
          /\ lastFrom' \in clients'
          /\ lastSends' = <<>>]_vars

C14_Witness ==
  /\ lastFrom # NoClient /\ Malformed(lastFrame) /\ lastFrame.json
  /\ lastFrom \in clients /\ conn[lastFrom] = "open"
  /\ RoomsOf(rooms, lastFrom) # {}

\* The tick whose first segment just ran began less than 1/fps_limit after
\* the time stamp of the cache (the begin of the last tick that rendered).
BeganAhead ==
  /\ lastTick.phase = "begin" /\ lastTick.kind # "off"
  /\ (lastTick.at - lastTick.preLast) * fpsLimit < TicksPerSecond

C16_ProductionsSpaced ==
  (lastTick.phase = "begin" /\ lastTick.kind = "produced")
    => (lastTick.at - lastTick.preLast) * fpsLimit >= TicksPerSecond

C16_Witness ==
  /\ lastTick.phase = "begin" /\ lastTick.kind = "produced"
  /\ lastTick.preCache # NoImage
  /\ \E j \in Callers : j # lastTick.caller /\ tk[j].pc = "ts"

C18_RenderErrorKeepsCache ==
  (lastTick.phase = "begin" /\ lastTick.render = "error"
     /\ lastTick.preCache # NoImage)
    => /\ currentFrame = lastTick.preCache
       /\ tk[lastTick.caller].img = lastTick.preCache

\* The command of the latest handle_command call, and the call's record.
LastDispatched == dispatched[Len(dispatched)]
LastCommand == ctlRecv[LastDispatched.peer][LastDispatched.n]

\* C19: dispatching set_fps_limit{fps} is answered with an ack and leaves
\* the video track's fps limit at min(30, max(5, fps)).
C19_SetFpsLimitApplied ==
  (dispatched # <<>> /\ LastCommand.type = "set_fps_limit")
    => /\ LastDispatched.response.type = "ack"
       /\ fpsLimit = ClampFps(LastCommand.value)

\* C20: dispatching set_confidence_threshold{threshold} is answered with an
\* ack and leaves the renderer's threshold at min(255, max(0, threshold)).
C20_SetConfidenceApplied ==
  (dispatched # <<>> /\ LastCommand.type = "set_confidence_threshold")
    => /\ LastDispatched.response.type = "ack"
       /\ confidence = ClampConfidence(LastCommand.value)

\* C21: dispatching set_range is answered with an ack exactly when the
\* sensor took the value, and with an error when it did not.
C21_SetRangeAckIffApplied ==
  (dispatched # <<>> /\ LastCommand.type = "set_range")
    => /\ (LastDispatched.response.type = "ack") <=> LastDispatched.applied
       /\ (LastDispatched.response.type = "error") <=> ~LastDispatched.applied

\* C22: dispatching set_colormap{name} with a supported name, in any letter
\* case, makes it the active colormap and is answered with an ack of
\* command_type set_colormap; with any other name the colormap stays.
C22_SetColormapApplied ==
  (dispatched # <<>> /\ LastCommand.type = "set_colormap")
    => IF Upper(LastCommand.name) \in Colormaps
       THEN /\ colormap = Upper(LastCommand.name)
            /\ LastDispatched.response =
                 [type |-> "ack", command_type |-> "set_colormap"]
       ELSE colormap = ConfigColormap

\* C23: the response of handle_command carries the wire kind of its command
\* as command_type, whether applying the command succeeded or raised.
C23_ResponseNamesCommand ==
  \A i \in 1..Len(dispatched) :
    dispatched[i].response.command_type =
      ctlRecv[dispatched[i].peer][dispatched[i].n].type

\* The handle_command calls made for the n-th message of p's channel.
DispatchesOf(p, n) ==
  {i \in 1..Len(dispatched) : dispatched[i].peer = p /\ dispatched[i].n = n}

\* C24: once its task has run, a control message with a tag that is none of
\* the four command types has got an error response of command kind
\* 'unknown'.
C24_UnknownTagAnswered ==
  ctlTasks = <<>> =>
    \A p \in Clients : \A n \in 1..Len(ctlRecv[p]) :
      (ctlRecv[p][n].json /\ ctlRecv[p][n].type \notin CtlTypes)
        => \E i \in DispatchesOf(p, n) :
             dispatched[i].response = [type |-> "error", command_type |-> "unknown"]

\* C25: a handle_command call changes no runtime parameter but the one its
\* command names, and none at all when its response is an error.
C25_OnlyNamedParameter ==
  [][Len(dispatched') > Len(dispatched) =>
       LET d == dispatched'[Len(dispatched')]
           kind == ctlRecv[d.peer][d.n].type
       IN  /\ kind # "set_range" => depthRange' = depthRange
           /\ kind # "set_confidence_threshold" => confidence' = confidence
           /\ kind # "set_colormap" => colormap' = colormap
           /\ kind # "set_fps_limit" => fpsLimit' = fpsLimit
           /\ d.response.type = "error"
                => <<depthRange, confidence, colormap, fpsLimit>>'
                     = <<depthRange, confidence, colormap, fpsLimit>>]_vars

C25_Witness ==
  /\ dispatched # <<>>
  /\ LastDispatched.response.type = "error"
  /\ depthRange # ConfigMaxDistance

\* C26: while the application runs, every remove_peer call that was suspended
\* in close() completes without error and leaves the id out of the active
\* set, also when another removal of the same id ran in between.
C26_RemovalIdempotent ==
  [][\A t \in Pcs :
       (appPc = "running" /\ rm[t].stage = "closing" /\ rm'[t].stage = "done")
         => /\ rm'[t].res \in {"removed", "absent"}
            /\ peers'[pcs[t].owner] = NoPc]_vars

\* C27: in handle_offer the answer is created only on a connection whose
\* remote description is set and whose transceiver directions are coerced,
\* the local description is set only after the answer is created, and the
\* control data channel appears only with the local description set, never
\* earlier.
C27_OfferStepsInOrder ==
  [][\A t \in Pcs :
       /\ (pcs'[t].dirs /\ ~pcs[t].dirs) => pcs'[t].remote
       /\ (pcs'[t].answer /\ ~pcs[t].answer) => (pcs[t].remote /\ pcs[t].dirs)
       /\ (pcs'[t].local /\ ~pcs[t].local) => pcs[t].answer
       /\ (pcs'[t].dc /\ ~pcs[t].dc)
            => (pcs[t].remote /\ pcs[t].dirs /\ pcs[t].answer /\ pcs'[t].local)]_vars

C27_Witness == \E t \in Pcs : pcs[t].dc /\ pcs[t].local

\* C30: a step of the 'failed' handler of a transport that a newer session of
\* the same client has superseded neither closes the newer transport nor
\* takes it out of the active set.
C30_SupersededFailureSparesNewer ==
  [][\A t, u \in Pcs :
       (rm'[t] # rm[t] /\ u > t /\ pcs[u].made /\ pcs[u].owner = pcs[t].owner)
         => /\ pcs'[u].closed = pcs[u].closed
            /\ peers[pcs[u].owner] = u => peers'[pcs[u].owner] = u]_vars

\* C28: a transport holds a candidate only if, when the candidate's frame
\* was handled, that transport was the sender's stored session and had its
\* remote description set; a candidate handled earlier is in no transport,
\* whatever happens afterwards.
C28_CandidateNeedsRemote ==
  /\ \A t \in Pcs : \A i \in iceApplied[t] :
       i \in 1..Len(iceLog) /\ iceLog[i].pc = t /\ iceLog[i].remote
  /\ \A i \in 1..Len(iceLog) : \A t \in Pcs :
       (iceLog[i].pc = NoPc \/ ~iceLog[i].remote) => i \notin iceApplied[t]

C28_Witness ==
  \E i, j \in 1..Len(iceLog) :
    /\ i < j
    /\ iceLog[i].from = iceLog[j].from
    /\ iceLog[i].pc # NoPc /\ ~iceLog[i].remote
    /\ iceLog[j].pc # NoPc
    /\ j \in iceApplied[iceLog[j].pc]

\* C29: a broadcast issues one send to every registered member of the room
\* but the excluded one, whether or not sends to other members fail, and
\* returns to its caller.
C29_FailedSendIsolated ==
  lastBcast.called =>
    /\ \A c \in (lastBcast.members \ {lastBcast.exclude}) \cap clients :
         Cardinality({i \in 1..Len(lastSends) : lastSends[i].to = c}) = 1
    /\ gathered = "returned"

C29_Witness ==
  /\ lastBcast.called
  /\ gathered = "returned"
  /\ \E i, j \in 1..Len(lastSends) :
       i < j /\ ~lastSends[i].ok /\ lastSends[j].ok

\* C31: the connection stored for a client whose handle_offer is not in
\* progress has its remote and its local description set.
C31_NoHalfNegotiatedSession ==
  \A c \in Clients :
    (peers[c] # NoPc /\ ho[c].pc = "idle")
      => (pcs[peers[c]].remote /\ pcs[peers[c]].local)

\* C32: a tick that returns has called release_frame once for each sensor
\* frame it obtained, and not at all if it obtained none.
C32_ReleasedExactlyOnce ==
  lastTick.phase = "return" => lastTick.rel = lastTick.frames

\* C33: every member of every room is a registered connection.
C33_MembersRegistered ==
  \A r \in RoomKeys(rooms) : rooms[r].members \subseteq clients

\* A room emptied by a disconnect (a leave would have deleted it) beside a
\* room that still has a member.
C33_Witness ==
  \E r, q \in RoomKeys(rooms) :
    /\ rooms[r].members = {}
    /\ rooms[q].members # {}
    /\ \E c \in Clients : c \notin clients

\* C7: after any sequence of join and leave frames of a connection, the
\* rooms whose member set holds the client are exactly those left by
\* replaying the frames in order on a set (join adds, leave removes).
C7_MembershipIsReplay ==
  \A c \in Clients : RoomsOf(rooms, c) = replay[c]

\* A leave has just removed the client from one of two rooms it was in.
C7_Witness ==
  /\ lastFrame.type = "leave"
  /\ LastRoom \in RoomsOf(preRooms, lastFrom)
  /\ RoomsOf(rooms, lastFrom) # {}
  /\ RoomsOf(rooms, lastFrom) # RoomsOf(preRooms, lastFrom)

\* C8: a leave for a room the client is not a member of changes no room and
\* sends nothing to anyone.
C8_LeaveNonMemberNoOp ==
  (lastFrame.type = "leave" /\ lastFrom \notin Members(preRooms, LastRoom))
    => (rooms = preRooms /\ lastSends = <<>>)

\* C9: a call of broadcast_to_room sends only to clients that are members of
\* the room when the call is made and are not the excluded client.
C9_BroadcastOnlyToMembers ==
  lastBcast.called =>
    \A i \in 1..Len(lastSends) :
      lastSends[i].to \in lastBcast.members \ {lastBcast.exclude}

\* A broadcast to a room that holds the excluded client and someone else.
C9_Witness ==
  /\ lastBcast.called
  /\ lastBcast.exclude \in lastBcast.members
  /\ lastSends # <<>>

\* C10: when B joins (leaves) a room, each other member of the room gets
\* exactly one send of peer_joined (peer_left) with peer_id = B, and nobody
\* else, B included, gets any send.
C10_NotifyOthersOnce ==
  lastFrame.type \in {"join", "leave"} =>
    LET kind == IF lastFrame.type = "join" THEN "peer_joined" ELSE "peer_left"
    IN  /\ \A c \in Clients :
             SendsTo(c, [type |-> kind, peer_id |-> lastFrom,
                         sender |-> NoClient]) =
               IF c \in LastOthers THEN 1 ELSE 0
        /\ Len(lastSends) = Cardinality(LastOthers)

\* B has just left a room it was in, with another member present.
C10_Witness ==
  /\ lastFrame.type = "leave"
  /\ lastFrom \in Members(preRooms, LastRoom)
  /\ LastOthers # {}
  /\ lastSends # <<>>

====
